---- MODULE Spec2Model ----
(***************************************************************************)
(* A model of app/ui/components/json-viewer.js: the JSONViewer component   *)
(* (parse the body, fall back to one error row) and the recursive          *)
(* JSONViewerObj component (per-instance state expanded / hasBeenExpanded  *)
(* / page, the handlers handleClickKey and handleNextPage, and render).    *)
(*                                                                         *)
(* Text is modelled as a sequence of code points, so that `${obj}`,        *)
(* slice, template strings and Object.keys are computed, not assumed.      *)
(* A component instance is identified by its `paths` prop; the instances   *)
(* that exist are the ones the last render returned (React mounts an       *)
(* instance when its element first appears and keeps its state while the   *)
(* element stays at the same key).                                         *)
(*                                                                         *)
(* Not modelled: setMinWidth / componentDidUpdate (lines 26-42, 187-189),  *)
(* which only measure the DOM and set a style; no row depends on them.     *)
(***************************************************************************)
EXTENDS Integers, Sequences, FiniteSets, TLC

VARIABLES body, parsed, state, rows

vars == <<body, parsed, state, rows>>

PAGE_SIZE == 25
MAX_VALUE_LENGTH == 100

(***************************************************************************)
(* Bounds of the documents the model is run on.                            *)
(***************************************************************************)
BigLen == 60      \* elements of the longest array of the sample documents
MidLen == 26      \* elements of the nested array of the sample documents
LongLen == 250    \* characters of the long string of the sample documents
NestedAt == 30    \* index of the long array's one element that is an object

(***************************************************************************)
(* Text helpers.                                                           *)
(***************************************************************************)
Min(a, b) == IF a < b THEN a ELSE b

\* String.prototype.slice(from, to) on a code point sequence, 0-based and
\* clamped to the length (the callers pass no negative index: the tail is only
\* taken of a text longer than MAX_VALUE_LENGTH).
Slice(s, from, to) ==
    LET f == IF from < 0 THEN 0 ELSE Min(from, Len(s))
        t == IF to < 0 THEN 0 ELSE Min(to, Len(s))
    IN  IF f >= t THEN <<>> ELSE SubSeq(s, f + 1, t)

\* The decimal text of an integer, as `${n}` gives it.
RECURSIVE Digits(_)
Digits(n) == IF n < 10 THEN <<48 + n>> ELSE Digits(n \div 10) \o <<48 + (n % 10)>>

NumberToString(n) == IF n < 0 THEN <<45>> \o Digits(-n) ELSE Digits(n)

IsDigit(c) == c >= 48 /\ c <= 57

RECURSIVE ToNum(_)
ToNum(s) == IF s = <<>> THEN 0 ELSE 10 * ToNum(SubSeq(s, 1, Len(s) - 1)) + (s[Len(s)] - 48)

(***************************************************************************)
(* JSON.parse(body.toString()) on the subset of JSON without escapes,      *)
(* fractions and exponents: a value, or ok = FALSE for a thrown            *)
(* SyntaxError. The text t[lo..hi] is parsed as one whole value; an array  *)
(* or object is split at its top-level commas, so the depth of the         *)
(* evaluation follows the nesting of the text and not its length.          *)
(***************************************************************************)
IsWs(c) == c \in {32, 9, 10, 13}

Fail == [ok |-> FALSE, value |-> [type |-> "null"]]

Ok(v) == [ok |-> TRUE, value |-> v]

\* The least element of a non-empty set of integers.
Least(S) == CHOOSE j \in S : \A k \in S : j <= k

\* The positions outside string literals (the quotes themselves included):
\* without escapes, those with an even number of quotes before them.
CodePositions(t) ==
    LET quotes == {k \in 1..Len(t) : t[k] = 34}
    IN  {j \in 1..Len(t) : j \in quotes \/ Cardinality({k \in quotes : k < j}) % 2 = 0}

\* Brackets opened and not closed in t[i..j].
Depth(t, code, i, j) ==
    Cardinality({k \in i..j : k \in code /\ t[k] \in {91, 123}})
    - Cardinality({k \in i..j : k \in code /\ t[k] \in {93, 125}})

\* The ranges <<from, to>> between the top-level commas of the bracket
\* opened at a and closed at b.
Segments(t, code, a, b) ==
    LET commas == {j \in (a + 1)..(b - 1) : j \in code /\ t[j] = 44 /\ Depth(t, code, a, j) = 1}
        nth(n) == CHOOSE c \in commas : Cardinality({d \in commas : d < c}) = n - 1
        count == Cardinality(commas)
    IN  [n \in 1..(count + 1) |->
            << IF n = 1 THEN a + 1 ELSE nth(n - 1) + 1,
               IF n = count + 1 THEN b - 1 ELSE nth(n) - 1 >>]

\* A string token filling t[a..b].
ParseString(t, a, b) ==
    IF a < b /\ t[a] = 34 /\ t[b] = 34
       /\ \A k \in (a + 1)..(b - 1) : t[k] # 34 /\ t[k] >= 32 /\ t[k] # 92
    THEN Ok([type |-> "string", s |-> SubSeq(t, a + 1, b - 1)])
    ELSE Fail

\* An integer token filling t[a..b]: -? (0 | [1-9][0-9]*).
ParseNumber(t, a, b) ==
    LET neg == t[a] = 45
        d == IF neg THEN a + 1 ELSE a
    IN  IF d <= b /\ (\A k \in d..b : IsDigit(t[k])) /\ (t[d] = 48 => d = b)
        THEN LET n == ToNum(SubSeq(t, d, b))
             IN  Ok([type |-> "number", n |-> IF neg THEN -n ELSE n])
        ELSE Fail

\* Defining a property on the object under construction: a repeated key keeps
\* its first position and takes the last value.
DefineProperty(obj, k, v) ==
    IF \E i \in 1..Len(obj.keys) : obj.keys[i] = k
    THEN LET i == CHOOSE i \in 1..Len(obj.keys) : obj.keys[i] = k
         IN  [obj EXCEPT !.vals[i] = v]
    ELSE [obj EXCEPT !.keys = Append(@, k), !.vals = Append(@, v)]

RECURSIVE DefineAll(_, _, _)
DefineAll(obj, members, n) ==
    IF n > Len(members) THEN obj
    ELSE DefineAll(DefineProperty(obj, members[n].key, members[n].value), members, n + 1)

RECURSIVE ParseValue(_, _, _, _)

\* "key" : value filling t[lo..hi].
ParseMember(t, code, lo, hi) ==
    LET colons == {j \in lo..hi : j \in code /\ t[j] = 58}
        c == Least(colons)
        ka == Least({j \in lo..c : ~IsWs(t[j])})
        kb == CHOOSE j \in ka..(c - 1) : ~IsWs(t[j]) /\ \A k \in (j + 1)..(c - 1) : IsWs(t[k])
    IN  IF colons = {} THEN [ok |-> FALSE, key |-> <<>>, value |-> [type |-> "null"]]
        ELSE IF ka = c THEN [ok |-> FALSE, key |-> <<>>, value |-> [type |-> "null"]]
        ELSE LET ks == ParseString(t, ka, kb)
                 r == ParseValue(t, code, c + 1, hi)
             IN  [ok |-> ks.ok /\ r.ok,
                  key |-> IF ks.ok THEN ks.value.s ELSE <<>>,
                  value |-> r.value]

ParseValue(t, code, lo, hi) ==
    LET ink == {j \in lo..hi : ~IsWs(t[j])}
        a == Least(ink)
        b == CHOOSE j \in ink : \A k \in ink : k <= j
    IN  IF ink = {} THEN Fail
        ELSE IF t[a] \in {91, 123} THEN
            LET close == IF t[a] = 91 THEN 93 ELSE 125
                ends == {j \in a..hi : j \in code /\ Depth(t, code, a, j) = 0}
            IN  IF ends = {} \/ Least(ends) # b \/ t[b] # close THEN Fail
                ELSE IF \A k \in (a + 1)..(b - 1) : IsWs(t[k]) THEN
                    IF t[a] = 91 THEN Ok([type |-> "array", items |-> <<>>])
                    ELSE Ok([type |-> "object", keys |-> <<>>, vals |-> <<>>])
                ELSE LET segs == Segments(t, code, a, b)
                     IN  IF t[a] = 91 THEN
                             LET rs == [n \in 1..Len(segs) |->
                                          ParseValue(t, code, segs[n][1], segs[n][2])]
                             IN  IF \A n \in 1..Len(rs) : rs[n].ok
                                 THEN Ok([type |-> "array",
                                          items |-> [n \in 1..Len(rs) |-> rs[n].value]])
                                 ELSE Fail
                         ELSE
                             LET ms == [n \in 1..Len(segs) |->
                                          ParseMember(t, code, segs[n][1], segs[n][2])]
                             IN  IF \A n \in 1..Len(ms) : ms[n].ok
                                 THEN Ok(DefineAll([type |-> "object", keys |-> <<>>, vals |-> <<>>],
                                                   ms, 1))
                                 ELSE Fail
        ELSE IF t[a] = 34 THEN ParseString(t, a, b)
        ELSE IF t[a] = 45 \/ IsDigit(t[a]) THEN ParseNumber(t, a, b)
        ELSE IF SubSeq(t, a, b) = <<116, 114, 117, 101>> THEN Ok([type |-> "boolean", b |-> TRUE])
        ELSE IF SubSeq(t, a, b) = <<102, 97, 108, 115, 101>> THEN Ok([type |-> "boolean", b |-> FALSE])
        ELSE IF SubSeq(t, a, b) = <<110, 117, 108, 108>> THEN Ok([type |-> "null"])
        ELSE Fail

JSONParse(t) == ParseValue(t, CodePositions(t), 1, Len(t))

(***************************************************************************)
(* JavaScript object and string helpers used by the component.             *)
(***************************************************************************)
\* The order of two canonical decimal texts by the numbers they denote.
NumLeq(a, b) ==
    \/ Len(a) < Len(b)
    \/ /\ Len(a) = Len(b)
       /\ \/ a = b
          \/ \E i \in 1..Len(a) : a[i] < b[i] /\ \A j \in 1..(i - 1) : a[j] = b[j]

\* An "array index" property name: the canonical text of an integer from 0
\* to 2^32 - 2. Object.keys lists these first, in ascending numeric order.
IsArrayIndex(k) ==
    /\ Len(k) >= 1
    /\ \A i \in 1..Len(k) : IsDigit(k[i])
    /\ (k[1] = 48 => Len(k) = 1)
    /\ NumLeq(k, <<52, 50, 57, 52, 57, 54, 55, 50, 57, 52>>)

RECURSIVE SortByNum(_, _)
SortByNum(keys, S) ==
    IF S = {} THEN <<>>
    ELSE LET m == CHOOSE i \in S : \A j \in S : NumLeq(keys[i], keys[j])
         IN  <<keys[m]>> \o SortByNum(keys, S \ {m})

\* Object.keys(obj): integer-like keys ascending, then the other keys in
\* the order they were defined.
ObjectKeys(obj) ==
    LET idx == {i \in 1..Len(obj.keys) : IsArrayIndex(obj.keys[i])}
    IN  SortByNum(obj.keys, idx)
        \o SelectSeq(obj.keys, LAMBDA k : ~IsArrayIndex(k))

\* value[key] of an object.
ObjectGet(obj, k) == obj.vals[CHOOSE i \in 1..Len(obj.keys) : obj.keys[i] = k]

IsArray(v) == v.type = "array"

\* `value && typeof value === 'object'` once Array.isArray has failed.
IsPlainObject(v) == v.type = "object"

\* `${obj}` of a scalar.
TemplateString(v) ==
    CASE v.type = "string" -> v.s
      [] v.type = "number" -> NumberToString(v.n)
      [] v.type = "boolean" -> IF v.b THEN <<116, 114, 117, 101>> ELSE <<102, 97, 108, 115, 101>>
      [] v.type = "null" -> <<110, 117, 108, 108>>

ELLIPSIS == 8230

(***************************************************************************)
(* JSONViewerObj.                                                          *)
(***************************************************************************)
\* constructor
\* A changed constructor: every instance starts expanded.
InitialStateAllExpanded(paths) ==
    [expanded |-> TRUE, hasBeenExpanded |-> FALSE, page |-> 0]

InitialState(paths) ==
    [expanded |-> Len(paths) = 0, hasBeenExpanded |-> FALSE, page |-> 0]

\* A changed isCollapsable: a string of exactly MAX_VALUE_LENGTH characters
\* counts as collapsable.
isCollapsableAtLimit(v) ==
    CASE v.type = "string" -> Len(v.s) >= MAX_VALUE_LENGTH
      [] v.type = "array" -> Len(v.items) > 0
      [] v.type = "object" -> Len(v.keys) > 0
      [] OTHER -> FALSE

getType(v) == v.type

isCollapsable(v) ==
    CASE getType(v) = "string" -> Len(v.s) > MAX_VALUE_LENGTH
      [] getType(v) = "array" -> Len(v.items) > 0
      [] getType(v) = "object" -> Len(ObjectKeys(v)) > 0
      [] OTHER -> FALSE

\* What getValue returns, as the cell put after the key cell:
\*   present = FALSE         null (nothing rendered)
\*   td = FALSE              a bare text child of the row ('[]' or '{}')
\*   td = TRUE               a <td> with text, and comment (the type-comment
\*                           span) or class json-viewer__type-<type>
NoCell == [present |-> FALSE, td |-> FALSE, text |-> <<>>, comment |-> <<>>, type |-> ""]

Comment(n, unit) ==
    IF n > 0
    THEN <<47, 47, 32>> \o NumberToString(n) \o <<32>> \o unit \o (IF n = 1 THEN <<>> ELSE <<115>>)
    ELSE <<>>

\* A changed halfOfMax: the margin of 5 left out.
halfOfMaxNoMargin == MAX_VALUE_LENGTH \div 2

halfOfMax == (MAX_VALUE_LENGTH \div 2) - 5

getValue(obj, collapsed) ==
    IF IsArray(obj) \/ IsPlainObject(obj) THEN
        LET n == IF IsArray(obj) THEN Len(obj.items) ELSE Len(ObjectKeys(obj))
            comment == IF IsArray(obj) THEN Comment(n, <<105, 116, 101, 109>>)
                       ELSE Comment(n, <<107, 101, 121>>)
            abbr == IF IsArray(obj)
                    THEN (IF collapsed /\ n > 0 THEN <<91, ELLIPSIS, 93>> ELSE <<91, 93>>)
                    ELSE (IF collapsed /\ n > 0 THEN <<123, ELLIPSIS, 125>> ELSE <<123, 125>>)
        IN  IF n = 0 THEN [NoCell EXCEPT !.present = TRUE, !.text = abbr]
            ELSE IF collapsed
            THEN [NoCell EXCEPT !.present = TRUE, !.td = TRUE, !.text = abbr, !.comment = comment]
            ELSE NoCell
    ELSE
        LET strObj == TemplateString(obj)
            collapsable == Len(strObj) > MAX_VALUE_LENGTH
            displayValue ==
                IF collapsable /\ collapsed
                THEN Slice(strObj, 0, halfOfMax) \o <<ELLIPSIS>>
                     \o Slice(strObj, Len(strObj) - halfOfMax, Len(strObj))
                ELSE strObj
        IN  [NoCell EXCEPT !.present = TRUE, !.td = TRUE, !.text = displayValue,
                           !.type = getType(obj)]

\* A changed handleClickKey: hasBeenExpanded follows expanded.
handleClickKeyFollowsExpanded(s) ==
    [s EXCEPT !.expanded = ~s.expanded, !.hasBeenExpanded = ~s.expanded]

\* A changed handleClickKey: the toggle starts the pagination over.
handleClickKeyResetsPage(s) ==
    [s EXCEPT !.expanded = ~s.expanded, !.hasBeenExpanded = TRUE, !.page = 0]

\* A changed handleClickKey: the toggle leaves hasBeenExpanded alone.
handleClickKeyOnlyExpands(s) == [s EXCEPT !.expanded = ~s.expanded]

handleClickKey(s) == [s EXCEPT !.expanded = ~s.expanded, !.hasBeenExpanded = TRUE]

\* A changed handleNextPage: revealing more also expands the node.
handleNextPageExpands(s) == [s EXCEPT !.page = s.page + 1, !.expanded = TRUE]

\* A changed handleNextPage: two pages at a time.
handleNextPageByTwo(s) == [s EXCEPT !.page = s.page + 2]

handleNextPage(s) == [s EXCEPT !.page = s.page + 1]

\* The state of the instance at `paths`: its own once mounted, the
\* constructor's when this render mounts it.
StateOf(st, paths) == IF paths \in DOMAIN st THEN st[paths] ELSE InitialState(paths)

NoLabel == [defined |-> FALSE, text |-> <<>>]

Label(text) == [defined |-> TRUE, text |-> text]

\* newPaths = [...paths, `[${key}]`] and [...paths, `.${key}`]
ArrayPath(paths, key) == Append(paths, <<91>> \o NumberToString(key) \o <<93>>)

ObjectPath(paths, key) == Append(paths, <<46>> \o key)

\* A <tr>. `indent` counts units of 1.3em of paddingLeft of the key cell;
\* hide / collapsable / collapsed are the classes of rowClasses; onClick says
\* that the key cell carries handleClickKey; label is the text of the key
\* span (absent when the span is not rendered); cell is what getValue
\* returned; caption is the text of the button of the "next" row.
Row(kind, paths, indent, hide, collapsable, collapsed, label, cell, caption) ==
    [kind |-> kind, paths |-> paths, indent |-> indent, hide |-> hide,
     collapsable |-> collapsable, collapsed |-> collapsed,
     onClick |-> (kind # "next" /\ collapsable), label |-> label,
     cell |-> cell, caption |-> caption]

\* `if (!collapsed || hasBeenExpanded)`
RendersChildren(collapsed, hasBeenExpanded) == ~collapsed \/ hasBeenExpanded

\* `hide={hide || collapsed}`
ChildHide(hide, collapsed) == hide \/ collapsed

\* A changed maxItem: the first page counted as page 1.
MaxItemFromPageOne(page, length) == IF page >= 0 THEN PAGE_SIZE * page ELSE length

\* maxItem; Infinity is stood for by the length, which no index reaches
\* and the length does not exceed.
MaxItem(page, length) == IF page >= 0 THEN PAGE_SIZE * (page + 1) ELSE length

NextBatch(length, maxItem) == Min(length - maxItem, PAGE_SIZE)

\* Show {nextBatch === PAGE_SIZE ? `${nextBatch} More` : 'Remaining'}
ButtonCaption(nextBatch) ==
    <<83, 104, 111, 119, 32>>
    \o (IF nextBatch = PAGE_SIZE
        THEN NumberToString(nextBatch) \o <<32, 77, 111, 114, 101>>
        ELSE <<82, 101, 109, 97, 105, 110, 105, 110, 103>>)

\* The <tr key="next"> of an array: it has no className.
NextRow(paths, length, maxItem) ==
    Row("next", paths, Len(paths), FALSE, FALSE, FALSE,
        Label(NumberToString(maxItem) \o <<ELLIPSIS>> \o NumberToString(length - 1)),
        NoCell, ButtonCaption(NextBatch(length, maxItem)))

\* The <tr className={rowClasses}> of a labelled collection.
KeyRow(value, paths, label, hide, collapsed) ==
    Row("key", paths, Len(paths) - 1, hide, isCollapsable(value), collapsed,
        label, getValue(value, collapsed), <<>>)

\* The <tr> of anything that is neither an array nor an object.
ValueRow(value, paths, label, hide, collapsed) ==
    Row("value", paths, Len(paths) - 1, hide, isCollapsable(value), collapsed,
        IF Len(paths) > 0 THEN label ELSE NoLabel,
        getValue(value, collapsed), <<>>)

RECURSIVE Render(_, _, _, _, _)
RECURSIVE RenderItems(_, _, _, _, _, _)
RECURSIVE RenderMembers(_, _, _, _, _)

\* A changed loop over the elements: the rows of a later element first.
RECURSIVE RenderItemsLastFirst(_, _, _, _, _, _)
RenderItemsLastFirst(value, paths, hide, st, key, maxItem) ==
    IF key < Len(value.items) /\ key < maxItem
    THEN RenderItemsLastFirst(value, paths, hide, st, key + 1, maxItem)
         \o Render(value.items[key + 1], ArrayPath(paths, key), Label(NumberToString(key)), hide, st)
    ELSE <<>>

\* for (let key = 0; key < value.length && key < maxItem; key++)
RenderItems(value, paths, hide, st, key, maxItem) ==
    IF key < Len(value.items) /\ key < maxItem
    THEN Render(value.items[key + 1], ArrayPath(paths, key), Label(NumberToString(key)), hide, st)
         \o RenderItems(value, paths, hide, st, key + 1, maxItem)
    ELSE <<>>

\* for (let key of Object.keys(value)), `keys` being the keys still to visit
RenderMembers(value, paths, hide, st, keys) ==
    IF keys = <<>> THEN <<>>
    ELSE Render(ObjectGet(value, Head(keys)), ObjectPath(paths, Head(keys)),
                Label(Head(keys)), hide, st)
         \o RenderMembers(value, paths, hide, st, Tail(keys))

\* JSONViewerObj.render, with the rows of the child components in place of
\* their elements. `hide` is FALSE where the prop is undefined.
Render(value, paths, label, hide, st) ==
    LET s == StateOf(st, paths)
        collapsed == ~s.expanded
    IN  IF IsArray(value) THEN
            (IF label.defined THEN <<KeyRow(value, paths, label, hide, collapsed)>> ELSE <<>>)
            \o (IF RendersChildren(collapsed, s.hasBeenExpanded)
                THEN LET maxItem == MaxItem(s.page, Len(value.items))
                     IN  RenderItems(value, paths, ChildHide(hide, collapsed), st, 0, maxItem)
                         \o (IF Len(value.items) > maxItem
                             THEN <<NextRow(paths, Len(value.items), maxItem)>>
                             ELSE <<>>)
                ELSE <<>>)
        ELSE IF IsPlainObject(value) THEN
            (IF label.defined THEN <<KeyRow(value, paths, label, hide, collapsed)>> ELSE <<>>)
            \o (IF RendersChildren(collapsed, s.hasBeenExpanded)
                THEN RenderMembers(value, paths, ChildHide(hide, collapsed), st, ObjectKeys(value))
                ELSE <<>>)
        ELSE <<ValueRow(value, paths, label, hide, collapsed)>>

\* The paths of the JSONViewerObj instances a render creates elements for.
RECURSIVE Instances(_, _, _)
Instances(value, paths, st) ==
    LET s == StateOf(st, paths)
        shown == RendersChildren(~s.expanded, s.hasBeenExpanded)
    IN  {paths} \cup
        (IF IsArray(value) /\ shown THEN
            UNION {Instances(value.items[key + 1], ArrayPath(paths, key), st) :
                   key \in {k \in 0..(Len(value.items) - 1) :
                            k < MaxItem(s.page, Len(value.items))}}
         ELSE IF IsPlainObject(value) /\ shown THEN
            UNION {Instances(ObjectGet(value, k), ObjectPath(paths, k), st) :
                   k \in {ObjectKeys(value)[i] : i \in 1..Len(ObjectKeys(value))}}
         ELSE {})

\* React's reconciliation of the instances after a render: an instance that
\* is rendered again keeps its state, a new one starts from its constructor.
Reconcile(value, st) ==
    [p \in Instances(value, <<>>, st) |-> StateOf(st, p)]

(***************************************************************************)
(* JSONViewer.                                                             *)
(***************************************************************************)
\* <tr><td>Uh Oh!</td></tr>
ErrorRow ==
    Row("error", <<>>, 0, FALSE, FALSE, FALSE, NoLabel,
        [NoCell EXCEPT !.present = TRUE, !.td = TRUE, !.text = <<85, 104, 32, 79, 104, 33>>],
        <<>>)

\* A changed JSONViewer.render: no fallback row, whatever JSON.parse gave is
\* rendered.
ViewerRowsNoFallback(p, st) == Render(p.value, <<>>, NoLabel, FALSE, st)

\* A changed JSONViewer.render: the root is given a label, as a child is.
ViewerRowsLabelledRoot(p, st) ==
    IF p.ok THEN Render(p.value, <<>>, Label(<<>>), FALSE, st) ELSE <<ErrorRow>>

\* JSONViewer.render: the rows inside <tbody>.
ViewerRows(p, st) ==
    IF p.ok THEN Render(p.value, <<>>, NoLabel, FALSE, st) ELSE <<ErrorRow>>

\* The instances mounted under <tbody>: none when the parse threw.
ViewerState(p, st) ==
    IF p.ok THEN Reconcile(p.value, st) ELSE <<>>

(***************************************************************************)
(* The bodies the component is given.                                      *)
(***************************************************************************)
Quoted(s) == <<34>> \o s \o <<34>>

\* n pairwise distinct characters, none of them a quote, a backslash or the
\* ellipsis.
Chars(n) == [i \in 1..n |-> 255 + i]

\* The text of n array elements: 0,1,...,n-1, with {"a":1} in place of the
\* number `nested`.
RECURSIVE Elements(_, _)
Elements(n, nested) ==
    IF n = 0 THEN <<>>
    ELSE (IF n = 1 THEN <<>> ELSE Elements(n - 1, nested) \o <<44>>)
         \o (IF n - 1 = nested THEN <<123, 34, 97, 34, 58, 49, 125>>
             ELSE NumberToString(n - 1))

\* {"b":{"arr":[0,...],"s":"<LongLen chars>"},"2":[],"1":{},"x":null,"t":[[1,2],{"k":true}]}
DocNested ==
    <<123, 34, 98, 34, 58, 123, 34, 97, 114, 114, 34, 58, 91>> \o Elements(MidLen, -1)
    \o <<93, 44, 34, 115, 34, 58>> \o Quoted(Chars(LongLen))
    \o <<125, 44, 34, 50, 34, 58, 91, 93, 44, 34, 49, 34, 58, 123, 125, 44, 34, 120, 34,
         58, 110, 117, 108, 108, 44, 34, 116, 34, 58, 91, 91, 49, 44, 50, 93, 44, 123,
         34, 107, 34, 58, 116, 114, 117, 101, 125, 93, 125>>

\* [0,...,{"a":1},...]
DocArray == <<91>> \o Elements(BigLen, NestedAt) \o <<93>>

\* ["<100 chars>","<101 chars>","<LongLen chars>","",7,true,null,-3,[],{}]
DocStrings ==
    <<91>> \o Quoted(Chars(MAX_VALUE_LENGTH)) \o <<44>> \o Quoted(Chars(MAX_VALUE_LENGTH + 1))
    \o <<44>> \o Quoted(Chars(LongLen))
    \o <<44, 34, 34, 44, 55, 44, 116, 114, 117, 101, 44, 110, 117, 108, 108, 44, 45, 51,
         44, 91, 93, 44, 123, 125, 93>>

\* {"b":1,"10":2,"2":3,"a":4,"01":6}
DocKeys ==
    <<123, 34, 98, 34, 58, 49, 44, 34, 49, 48, 34, 58, 50, 44, 34, 50, 34, 58, 51, 44,
      34, 97, 34, 58, 52, 44, 34, 48, 49, 34, 58, 54, 125>>

\* The bodies that are not JSON texts.
Malformed ==
    { <<123, 110, 111, 116, 32, 106, 115, 111, 110>>,          \* {not json
      <<91, 49, 44, 50>>,                                      \* [1,2
      <<123, 34, 97, 34, 58, 49, 125, 120>>,                   \* {"a":1}x
      <<91, 48, 49, 93>>,                                      \* [01]
      <<123, 34, 97, 34, 58, 49, 44, 125>>,                    \* {"a":1,}
      <<91, 49, 44, 44, 50, 93>>,                              \* [1,,2]
      <<123, 34, 97, 34, 32, 49, 125>>,                        \* {"a" 1}
      <<>> }                                                   \* the empty body

Bodies ==
    { DocNested, DocArray, DocStrings, DocKeys,
      <<91>> \o Elements(2 * PAGE_SIZE, -1) \o <<93>>,         \* [0,...,49]
      <<91>> \o Elements(PAGE_SIZE + 1, -1) \o <<93>>,         \* [0,...,25]
      <<91>> \o Elements(PAGE_SIZE, -1) \o <<93>>,             \* [0,...,24]
      Quoted(Chars(LongLen)),                                  \* "<LongLen chars>"
      <<123, 125>>,                                            \* {}
      <<91, 32, 93>>,                                          \* [ ]
      <<110, 117, 108, 108>>,                                  \* null
      <<52, 50>>,                                              \* 42
      <<32, 91, 49, 44, 32, 50, 32, 44, 32, 123, 34, 107, 34, 32, 58, 32, 34, 118, 34,
        125, 32, 93, 32>>,                                     \*  [1, 2 , {"k" : "v"} ]
      <<123, 34, 97, 34, 58, 49, 44, 34, 98, 34, 58, 50, 44, 34, 97, 34, 58, 91, 51,
        93, 125>> }                                            \* {"a":1,"b":2,"a":[3]}
    \cup Malformed

(***************************************************************************)
(* The state machine: the first render of a body, then clicks.             *)
(***************************************************************************)
Init ==
    /\ body \in Bodies
    /\ parsed = JSONParse(body)
    /\ state = ViewerState(parsed, <<>>)
    /\ rows = ViewerRows(parsed, state)

\* A click on the key cell of row i, which carries handleClickKey of the
\* instance that rendered it: the handler and the render that setState causes.
ClickKey(i) ==
    /\ rows[i].onClick
    /\ state' = ViewerState(parsed, [state EXCEPT ![rows[i].paths] = handleClickKey(@)])
    /\ rows' = ViewerRows(parsed, state')
    /\ UNCHANGED <<body, parsed>>

\* A click on the button of row i, the "next" row of an array: handleNextPage
\* of the instance that rendered it and the render that setState causes.
NextPage(i) ==
    /\ rows[i].kind = "next"
    /\ state' = ViewerState(parsed, [state EXCEPT ![rows[i].paths] = handleNextPage(@)])
    /\ rows' = ViewerRows(parsed, state')
    /\ UNCHANGED <<body, parsed>>

Next ==
    \/ \E i \in 1..Len(rows) : ClickKey(i)
    \/ \E i \in 1..Len(rows) : NextPage(i)

Spec == Init /\ [][Next]_vars

\* The same component with the clicks a user of the rendered table can make:
\* a row of class `hide` is not displayed and receives none. The "next" row
\* never has the class.
ClickShownKey(i) == ~rows[i].hide /\ ClickKey(i)

NextShown ==
    \/ \E i \in 1..Len(rows) : ClickShownKey(i)
    \/ \E i \in 1..Len(rows) : NextPage(i)

SpecShown == Init /\ [][NextShown]_vars

(***************************************************************************)
(* A new body given to the mounted JSONViewer. React reconciles the new    *)
(* elements with the mounted instances: the JSONViewerObj under <tbody>,   *)
(* and below it every child element of the same `key`, is updated in place *)
(* and keeps its state; an instance is mounted anew only where no instance *)
(* of that key was rendered before, and all are unmounted when the render  *)
(* gives the error row instead.                                            *)
(***************************************************************************)
\* The `key` of the element of the instance whose last path segment is seg:
\* the index of `[index]`, the member key of `.key`.
ReactKey(seg) == IF seg[1] = 91 THEN SubSeq(seg, 2, Len(seg) - 1) ELSE Tail(seg)

\* The paths that the instance mounted at q has in a render of v: the chain
\* of keys of q followed from the root of v, as far as v has elements of
\* these keys.
RECURSIVE Rehome(_, _, _, _)
Rehome(v, q, i, acc) ==
    IF i > Len(q) THEN [ok |-> TRUE, paths |-> acc]
    ELSE LET k == ReactKey(q[i])
         IN  IF IsArray(v)
             THEN IF /\ IsArrayIndex(k)
                     /\ Len(v.items) > 0
                     /\ NumLeq(k, NumberToString(Len(v.items) - 1))
                  THEN Rehome(v.items[ToNum(k) + 1], q, i + 1, Append(acc, <<91>> \o k \o <<93>>))
                  ELSE [ok |-> FALSE, paths |-> acc]
             ELSE IF IsPlainObject(v) /\ \E j \in 1..Len(v.keys) : v.keys[j] = k
             THEN Rehome(ObjectGet(v, k), q, i + 1, Append(acc, <<46>> \o k))
             ELSE [ok |-> FALSE, paths |-> acc]

\* The states of the mounted instances, by the paths they get in a render of v.
Rekeyed(st, v) ==
    LET kept == {q \in DOMAIN st : Rehome(v, q, 1, <<>>).ok}
    IN  [p \in {Rehome(v, q, 1, <<>>).paths : q \in kept} |->
            st[CHOOSE q \in kept : Rehome(v, q, 1, <<>>).paths = p]]

\* The documents of a session in which the body is replaced.
Documents ==
    { <<123, 34, 97, 34, 58, 91>> \o Elements(MidLen, -1) \o <<93, 44, 34, 115, 34, 58>> \o Quoted(Chars(MAX_VALUE_LENGTH + 1)) \o <<125>>,
                                                   \* {"a":[0,...],"s":"<101 chars>"}
      <<123, 34, 97, 34, 58, 91, 91, 55, 93, 44, 56, 93, 44, 34, 115, 34, 58, 57, 125>>,                                          \* {"a":[[7],8],"s":9}
      Quoted(Chars(MAX_VALUE_LENGTH + 1)),         \* "<101 chars>"
      <<123, 110, 111, 116, 32, 106, 115, 111, 110>> }                                         \* {not json

InitDocuments ==
    /\ body \in Documents
    /\ parsed = JSONParse(body)
    /\ state = ViewerState(parsed, <<>>)
    /\ rows = ViewerRows(parsed, state)

\* JSONViewer rendered again with another body: the parse, the render, and
\* the reconciliation with the instances mounted so far.
ReplaceBody(b) ==
    /\ b # body
    /\ body' = b
    /\ parsed' = JSONParse(b)
    /\ state' = IF parsed'.ok
                THEN ViewerState(parsed', Rekeyed(state, parsed'.value))
                ELSE <<>>
    /\ rows' = ViewerRows(parsed', state')

NextReplace ==
    \/ \E i \in 1..Len(rows) : ClickKey(i)
    \/ \E i \in 1..Len(rows) : NextPage(i)
    \/ \E b \in Documents : ReplaceBody(b)

SpecReplace == InitDocuments /\ [][NextReplace]_vars

(***************************************************************************)
(* Vocabulary of the properties.                                           *)
(***************************************************************************)
IsPrefix(p, q) == Len(p) <= Len(q) /\ SubSeq(q, 1, Len(p)) = p

IsProperPrefix(p, q) == Len(p) < Len(q) /\ IsPrefix(p, q)

Parent(p) == SubSeq(p, 1, Len(p) - 1)

\* The value of the document at a path: segment `[k]` selects element k,
\* segment `.key` selects the member `key`.
RECURSIVE Walk(_, _, _)
Walk(v, p, i) ==
    IF i > Len(p) THEN v
    ELSE IF v.type = "array"
    THEN Walk(v.items[ToNum(SubSeq(p[i], 2, Len(p[i]) - 1)) + 1], p, i + 1)
    ELSE Walk(ObjectGet(v, Tail(p[i])), p, i + 1)

ValueAt(p) == Walk(parsed.value, p, 1)

\* A row a node renders for itself, as opposed to the "next" row of an array
\* and the error row.
IsNodeRow(r) == r.kind \in {"key", "value"}

\* The rows below the node at p: those of its descendants, "next" rows included.
RowsBelow(rs, p) == SelectSeq(rs, LAMBDA r : IsProperPrefix(p, r.paths))

\* The rows of the children of the collection at p, in order: the node rows of
\* its elements or members, and its own "next" row.
ChildRows(rs, p) ==
    SelectSeq(rs, LAMBDA r : \/ IsNodeRow(r) /\ Len(r.paths) = Len(p) + 1 /\ IsPrefix(p, r.paths)
                             \/ r.kind = "next" /\ r.paths = p)

\* The `hide` the instance at p was given: what its own row shows, and FALSE
\* for the root, which is given none.
HideOf(p) ==
    IF \E i \in 1..Len(rows) : IsNodeRow(rows[i]) /\ rows[i].paths = p
    THEN LET i == CHOOSE i \in 1..Len(rows) : IsNodeRow(rows[i]) /\ rows[i].paths = p
         IN  rows[i].hide
    ELSE FALSE

(***************************************************************************)
(* C1: collapsing an expanded node keeps every row below it, now hidden,   *)
(* keeps the state of every descendant, and a second toggle gives back the *)
(* rows that were there before the collapse.                               *)
(***************************************************************************)
C1_CollapseRetainsHiddenRows ==
    [][\A i \in 1..Len(rows) :
         (ClickKey(i) /\ state[rows[i].paths].expanded) =>
            LET p == rows[i].paths
                before == RowsBelow(rows, p)
                after == RowsBelow(rows', p)
            IN  /\ Len(after) = Len(before)
                /\ \A k \in 1..Len(before) : after[k] = [before[k] EXCEPT !.hide = TRUE]
                /\ \A q \in DOMAIN state :
                       IsProperPrefix(p, q) => q \in DOMAIN state' /\ state'[q] = state[q]
                /\ ViewerRows(parsed,
                              ViewerState(parsed, [state' EXCEPT ![p] = handleClickKey(@)]))
                   = rows
      ]_vars

(***************************************************************************)
(* C2: every row of the children of a collection, its "next" row included, *)
(* is hidden exactly when the collection was given hide or is collapsed.   *)
(***************************************************************************)
C2_ChildRowsHiddenIffParentHiddenOrCollapsed ==
    \A i \in 1..Len(rows) :
        LET r == rows[i]
        IN  /\ (r.kind = "next" =>
                  r.hide = (HideOf(r.paths) \/ ~state[r.paths].expanded))
            /\ (IsNodeRow(r) /\ Len(r.paths) > 0 =>
                  r.hide = (HideOf(Parent(r.paths)) \/ ~state[Parent(r.paths)].expanded))

(***************************************************************************)
(* C3: an expanded array of n elements at page p shows the elements        *)
(* 0 .. min(n, 25 (p + 1)) - 1 in index order, then one "next" row exactly *)
(* when n > 25 (p + 1); that row names 25 (p + 1) .. n - 1 and says        *)
(* "Show 25 More" when at least 25 elements remain, "Show Remaining"       *)
(* otherwise.                                                              *)
(***************************************************************************)
Show25More == <<83, 104, 111, 119, 32, 50, 53, 32, 77, 111, 114, 101>>

ShowRemaining == <<83, 104, 111, 119, 32, 82, 101, 109, 97, 105, 110, 105, 110, 103>>

C3_ArrayPagination ==
    \A p \in DOMAIN state :
        LET v == ValueAt(p)
        IN  (v.type = "array" /\ state[p].expanded) =>
                LET n == Len(v.items)
                    cap == 25 * (state[p].page + 1)
                    m == Min(n, cap)
                    d == ChildRows(rows, p)
                IN  /\ Len(d) = m + (IF n > cap THEN 1 ELSE 0)
                    /\ \A k \in 1..m :
                           /\ IsNodeRow(d[k])
                           /\ d[k].paths = ArrayPath(p, k - 1)
                           /\ d[k].label = Label(NumberToString(k - 1))
                    /\ (n > cap =>
                           /\ d[m + 1].kind = "next"
                           /\ d[m + 1].label.text
                              = NumberToString(cap) \o <<8230>> \o NumberToString(n - 1)
                           /\ d[m + 1].caption
                              = IF n - cap >= 25 THEN Show25More ELSE ShowRemaining)

\* The array of 60 elements after one reveal-more: 0-49, then 50...59 and
\* "Show Remaining".
C3_Witness ==
    \E p \in DOMAIN state :
        /\ ValueAt(p).type = "array"
        /\ Len(ValueAt(p).items) = 60
        /\ state[p].expanded
        /\ state[p].page = 1
        /\ Len(ChildRows(rows, p)) = 51
        /\ \E i \in 1..Len(rows) :
               /\ rows[i].kind = "next"
               /\ rows[i].paths = p
               /\ rows[i].label.text = <<53, 48, 8230, 53, 57>>
               /\ rows[i].caption = ShowRemaining

(***************************************************************************)
(* C4: hasBeenExpanded of a node starts false, is true after a toggle of   *)
(* the node, becomes true by no other step, and once true stays true.      *)
(***************************************************************************)
C4_HasBeenExpandedMonotonic ==
    /\ \A p \in DOMAIN state : ~state[p].hasBeenExpanded
    /\ [][/\ \A p \in DOMAIN state :
                /\ p \in DOMAIN state'
                /\ state[p].hasBeenExpanded => state'[p].hasBeenExpanded
                /\ (~state[p].hasBeenExpanded /\ state'[p].hasBeenExpanded) =>
                       \E i \in 1..Len(rows) : rows[i].paths = p /\ ClickKey(i)
          /\ \A p \in DOMAIN state' \ DOMAIN state : ~state'[p].hasBeenExpanded
          /\ \A i \in 1..Len(rows) :
                ClickKey(i) => state'[rows[i].paths].hasBeenExpanded
         ]_vars

\* A node toggled twice: collapsed again, hasBeenExpanded still true.
C4_Witness ==
    \E p \in DOMAIN state : Len(p) > 0 /\ state[p].hasBeenExpanded /\ ~state[p].expanded

(***************************************************************************)
(* C5: page of a node starts at 0; a reveal-more on the node adds exactly  *)
(* 1 to it, and no other step (a toggle of the node, of an ancestor, or    *)
(* any action on another node) changes it.                                 *)
(***************************************************************************)
C5_PageOnlyGrowsByRevealMore ==
    /\ \A p \in DOMAIN state : state[p].page = 0
    /\ [][/\ \A p \in DOMAIN state :
                /\ p \in DOMAIN state'
                /\ state'[p].page =
                      IF \E i \in 1..Len(rows) :
                             rows[i].kind = "next" /\ rows[i].paths = p /\ NextPage(i)
                      THEN state[p].page + 1
                      ELSE state[p].page
          /\ \A p \in DOMAIN state' \ DOMAIN state : state'[p].page = 0
         ]_vars

\* An array revealed further and then collapsed, below a collapsed parent:
\* its page is kept.
C5_Witness ==
    \E p \in DOMAIN state :
        /\ Len(p) > 1
        /\ state[p].page >= 1
        /\ ~state[p].expanded
        /\ ~state[Parent(p)].expanded

(***************************************************************************)
(* C6: the row of a node carries the toggle exactly when the node is       *)
(* collapsible (a string of more than 100 characters, a non-empty array,   *)
(* an object with a key); the toggle flips expanded and sets               *)
(* hasBeenExpanded; the state of a node that is not collapsible stays the  *)
(* initial one.                                                            *)
(***************************************************************************)
Collapsible(v) ==
    \/ v.type = "string" /\ Len(v.s) > 100
    \/ v.type = "array" /\ Len(v.items) > 0
    \/ v.type = "object" /\ Len(v.keys) >= 1

C6_ToggleExactlyOnCollapsible ==
    /\ [](\A i \in 1..Len(rows) :
              IsNodeRow(rows[i]) =>
                  (rows[i].onClick <=> Collapsible(ValueAt(rows[i].paths))))
    /\ [](\A p \in DOMAIN state :
              ~Collapsible(ValueAt(p)) =>
                  /\ state[p].expanded = (p = <<>>)
                  /\ ~state[p].hasBeenExpanded
                  /\ state[p].page = 0)
    /\ [][\A i \in 1..Len(rows) :
              ClickKey(i) =>
                  /\ state'[rows[i].paths].expanded = ~state[rows[i].paths].expanded
                  /\ state'[rows[i].paths].hasBeenExpanded
         ]_vars

\* A toggled collapsible node beside a row that offers no toggle.
C6_Witness ==
    \E i, j \in 1..Len(rows) :
        /\ rows[i].onClick
        /\ state[rows[i].paths].hasBeenExpanded
        /\ IsNodeRow(rows[j])
        /\ ~rows[j].onClick

(***************************************************************************)
(* C7: an empty collection, at the root or below it, renders exactly one   *)
(* row, has no row below it and no "next" row, and its row offers no       *)
(* toggle.                                                                 *)
(***************************************************************************)
IsEmptyCollection(v) ==
    \/ v.type = "array" /\ v.items = <<>>
    \/ v.type = "object" /\ v.keys = <<>>

C7_EmptyCollectionIsOneRow ==
    \A p \in DOMAIN state :
        IsEmptyCollection(ValueAt(p)) =>
            /\ Len(SelectSeq(rows, LAMBDA r : r.paths = p)) = 1
            /\ RowsBelow(rows, p) = <<>>
            /\ \A i \in 1..Len(rows) :
                   rows[i].paths = p =>
                       IsNodeRow(rows[i]) /\ ~rows[i].onClick /\ ~rows[i].collapsable

(***************************************************************************)
(* C8: the member rows of an object whose members are rendered appear in   *)
(* the order in which the keys appear in the document.                     *)
(***************************************************************************)
C8_MemberRowsInDocumentOrder ==
    \A p \in DOMAIN state :
        LET v == ValueAt(p)
        IN  (v.type = "object" /\ (state[p].expanded \/ state[p].hasBeenExpanded)) =>
                LET d == ChildRows(rows, p)
                IN  /\ Len(d) = Len(v.keys)
                    /\ \A k \in 1..Len(d) : d[k].label = Label(v.keys[k])

(***************************************************************************)
(* C9: the row of a string of L characters shows it truncated exactly when *)
(* L > 100 and the node is collapsed; the truncated text is the first 45   *)
(* characters, one ellipsis and the last 45 characters (91 in all);        *)
(* otherwise the text is the whole string; and a toggle of a string of     *)
(* more than 100 characters changes the text shown.                        *)
(***************************************************************************)
C9_LongStringTruncation ==
    \A i \in 1..Len(rows) :
        (rows[i].kind = "value" /\ ValueAt(rows[i].paths).type = "string") =>
            LET r == rows[i]
                str == ValueAt(r.paths).s
                L == Len(str)
                truncated == L > 100 /\ ~state[r.paths].expanded
                toggled == ViewerRows(parsed,
                               ViewerState(parsed, [state EXCEPT ![r.paths] = handleClickKey(@)]))
            IN  /\ r.cell.present /\ r.cell.td
                /\ truncated =>
                       /\ r.cell.text = SubSeq(str, 1, 45) \o <<8230>> \o SubSeq(str, L - 44, L)
                       /\ Len(r.cell.text) = 91
                       /\ r.cell.text # str
                /\ ~truncated => r.cell.text = str
                /\ L > 100 =>
                       /\ r.onClick
                       /\ toggled[i].paths = r.paths
                       /\ toggled[i].cell.text # r.cell.text

\* One long string toggled open and shown whole beside another still truncated.
C9_Witness ==
    \E i, j \in 1..Len(rows) :
        /\ rows[i].kind = "value" /\ rows[j].kind = "value"
        /\ ValueAt(rows[i].paths).type = "string"
        /\ Len(ValueAt(rows[i].paths).s) = 250
        /\ state[rows[i].paths].hasBeenExpanded
        /\ state[rows[i].paths].expanded
        /\ rows[i].cell.text = ValueAt(rows[i].paths).s
        /\ ValueAt(rows[j].paths).type = "string"
        /\ Len(ValueAt(rows[j].paths).s) > 100
        /\ Len(rows[j].cell.text) = 91

(***************************************************************************)
(* C10: a body that is not a JSON text gives exactly one error row, saying *)
(* "Uh Oh!", with no JSONViewerObj instance rendered; a body that is a     *)
(* JSON text gives no error row.                                           *)
(***************************************************************************)
C10_MalformedBodyGivesOneErrorRow ==
    /\ body \in Malformed =>
           /\ Len(rows) = 1
           /\ rows[1].kind = "error"
           /\ rows[1].cell.text = <<85, 104, 32, 79, 104, 33>>
           /\ DOMAIN state = {}
    /\ body \notin Malformed =>
           /\ parsed.ok
           /\ <<>> \in DOMAIN state
           /\ \A i \in 1..Len(rows) : rows[i].kind # "error"

\* The body {not json, rendered.
C10_Witness ==
    /\ body = <<123, 110, 111, 116, 32, 106, 115, 111, 110>>
    /\ Len(rows) = 1
    /\ rows[1].kind = "error"

SummaryToken(v) ==
    LET n == IF v.type = "array" THEN Len(v.items) ELSE Len(v.keys)
        unit == IF v.type = "array" THEN <<105, 116, 101, 109>> ELSE <<107, 101, 121>>
    IN  IF n = 0 THEN <<>>
        ELSE <<47, 47, 32>> \o NumberToString(n) \o <<32>> \o unit
             \o (IF n = 1 THEN <<>> ELSE <<115>>)

(***************************************************************************)
(* C12: every rendered collection below the root has exactly one key row;  *)
(* the row shows the label and the summary token, whether the node is      *)
(* collapsed or expanded; the abbreviation "[...]" / "{...}" (with the     *)
(* ellipsis character) is in the row exactly while a non-empty node is     *)
(* collapsed, and an expanded node has no value cell. The root collection  *)
(* has no key row.                                                         *)
(***************************************************************************)
C12_KeyRowShowsLabelAndSummary ==
    /\ \A p \in DOMAIN state :
           (p # <<>> /\ ValueAt(p).type \in {"array", "object"}) =>
               LET v == ValueAt(p)
                   own == SelectSeq(rows, LAMBDA r : r.paths = p /\ r.kind # "next")
                   n == IF v.type = "array" THEN Len(v.items) ELSE Len(v.keys)
                   key == IF v.type = "array" THEN <<91, 8230, 93>> ELSE <<123, 8230, 125>>
               IN  /\ Len(own) = 1
                   /\ own[1].kind = "key"
                   /\ own[1].label.defined
                   /\ p[Len(p)] \in {<<46>> \o own[1].label.text,
                                     <<91>> \o own[1].label.text \o <<93>>}
                   /\ own[1].cell.comment = SummaryToken(v)
                   /\ (state[p].expanded /\ n > 0) => ~own[1].cell.present
                   /\ (~state[p].expanded /\ n > 0) =>
                          own[1].cell.present /\ own[1].cell.text = key
    /\ \A i \in 1..Len(rows) : rows[i].kind = "key" => rows[i].paths # <<>>

\* The rows of the subtree of the node at q: its own rows and those below it.
InSubtree(q, i) == IsPrefix(q, rows[i].paths)

(***************************************************************************)
(* C13: the rows are the pre-order traversal of the rendered tree. The     *)
(* rows of the subtree of a node are consecutive; a key row is the first   *)
(* row of its subtree and is directly followed by the row of its first     *)
(* child; the element rows of an array are in increasing index order from  *)
(* 0; and the "next" row of an array is the last row of the array's        *)
(* subtree, so after its elements and before the array's next sibling.     *)
(***************************************************************************)
C13_RowsInPreorder ==
    /\ \A q \in {rows[i].paths : i \in 1..Len(rows)} :
           Cardinality({i \in 1..Len(rows) :
                           InSubtree(q, i) /\ (i = 1 \/ ~InSubtree(q, i - 1))}) = 1
    /\ \A i \in 1..Len(rows) :
           LET r == rows[i]
           IN  /\ r.kind = "key" =>
                      /\ (i > 1 => ~InSubtree(r.paths, i - 1))
                      /\ (i < Len(rows) /\ InSubtree(r.paths, i + 1)) =>
                             /\ IsNodeRow(rows[i + 1])
                             /\ Parent(rows[i + 1].paths) = r.paths
                             /\ ValueAt(r.paths).type = "array" =>
                                    rows[i + 1].paths = Append(r.paths, <<91, 48, 93>>)
               /\ r.kind = "next" =>
                      /\ (i < Len(rows) => ~InSubtree(r.paths, i + 1))
                      /\ i > 1 /\ IsProperPrefix(r.paths, rows[i - 1].paths)
    /\ \A p \in DOMAIN state :
           ValueAt(p).type = "array" =>
               LET d == ChildRows(rows, p)
               IN  \A k \in 1..Len(d) :
                       IF d[k].kind = "next" THEN k = Len(d)
                       ELSE d[k].paths = Append(p, <<91>> \o NumberToString(k - 1) \o <<93>>)

\* A "next" row below the root followed by the row of the array's next
\* sibling, and a key row two levels down followed by its first child.
C13_Witness ==
    /\ \E i \in 1..(Len(rows) - 1) :
           /\ rows[i].kind = "next"
           /\ Len(rows[i].paths) = 2
           /\ IsNodeRow(rows[i + 1])
           /\ Parent(rows[i + 1].paths) = Parent(rows[i].paths)
    /\ \E i \in 1..(Len(rows) - 1) :
           /\ rows[i].kind = "key"
           /\ Len(rows[i].paths) = 2
           /\ Parent(rows[i + 1].paths) = rows[i].paths

(***************************************************************************)
(* C14: a replacement of the document discards the expansion state: after  *)
(* it every mounted instance is in its initial state, the root expanded,   *)
(* every other instance collapsed and never expanded, all on page 0,       *)
(* whatever was toggled or revealed in the old document.                   *)
(***************************************************************************)
C14_ReplacementDiscardsState ==
    [][body' # body =>
          \A p \in DOMAIN state' :
              state'[p] = [expanded |-> (p = <<>>), hasBeenExpanded |-> FALSE, page |-> 0]]_vars

\* Every instance other than the one at p has after the step the state it had
\* before it; none is unmounted, and one mounted by the step has the state
\* its constructor gives.
OthersUnchanged(p) ==
    /\ DOMAIN state \subseteq DOMAIN state'
    /\ \A q \in DOMAIN state' \ {p} :
           state'[q] = IF q \in DOMAIN state THEN state[q]
                       ELSE [expanded |-> FALSE, hasBeenExpanded |-> FALSE, page |-> 0]

(***************************************************************************)
(* C15: a click on the button of a "next" row leaves expanded and          *)
(* hasBeenExpanded of its array as they were; a click on a key cell leaves *)
(* page of its node as it was; and either click leaves expanded,           *)
(* hasBeenExpanded and page of every other node as they were.              *)
(***************************************************************************)
C15_ActionsChangeOnlyTheirFields ==
    [][\A i \in 1..Len(rows) :
          LET p == rows[i].paths
          IN  /\ NextPage(i) =>
                     /\ state'[p].expanded = state[p].expanded
                     /\ state'[p].hasBeenExpanded = state[p].hasBeenExpanded
                     /\ state'[p].page = state[p].page + 1
                     /\ OthersUnchanged(p)
              /\ ClickKey(i) =>
                     /\ state'[p].page = state[p].page
                     /\ state'[p].expanded = ~state[p].expanded
                     /\ OthersUnchanged(p)]_vars

\* More elements revealed for an array that is collapsed, beside a node
\* toggled after the array was paged.
C15_Witness ==
    \E p, q \in DOMAIN state :
        /\ p # q
        /\ state[p].page = 1 /\ ~state[p].expanded /\ state[p].hasBeenExpanded
        /\ Len(p) = 2
        /\ state[q].expanded /\ Len(q) = 2

\* The indentation the claim gives the row r, in units of 1.3em, the rows rs
\* being those rendered with it: 0 at root level, one more than the key row
\* of the parent below it, and for a "next" row that of the element rows.
IndentationAsClaimed(rs, r) ==
    LET keyRowOf(q) == CHOOSE j \in 1..Len(rs) : rs[j].kind = "key" /\ rs[j].paths = q
    IN  IF r.kind = "next"
        THEN (IF r.paths = <<>> THEN 0 ELSE rs[keyRowOf(r.paths)].indent + 1)
        ELSE (IF Len(r.paths) <= 1 THEN 0 ELSE rs[keyRowOf(Parent(r.paths))].indent + 1)

(***************************************************************************)
(* C16: the indentation of every row is a whole number of 1.3em units that *)
(* is never negative: 0 for the row of a root scalar and for the rows of   *)
(* the root's direct children, one more than the parent's key row for any  *)
(* other node, and for the "next" row of an array the indentation of the   *)
(* array's element rows.                                                   *)
(***************************************************************************)
C16_IndentationIsDepth ==
    \A i \in 1..Len(rows) :
        rows[i].kind # "error" =>
            /\ rows[i].indent \in Nat
            /\ rows[i].indent = IndentationAsClaimed(rows, rows[i])
            /\ rows[i].kind = "next" =>
                   \A j \in 1..Len(rows) :
                       (IsNodeRow(rows[j]) /\ Parent(rows[j].paths) = rows[i].paths
                        /\ rows[j].paths # <<>>)
                           => rows[j].indent = rows[i].indent

\* ceil(n / 25)
PagesOf(n) == (n + 24) \div 25

\* The rows of the elements of the array at p, and its "next" rows.
ElementRows(p) == SelectSeq(ChildRows(rows, p), IsNodeRow)

NextRowsOf(p) == SelectSeq(rows, LAMBDA r : r.kind = "next" /\ r.paths = p)

\* 25 * page < max(n, 1) for the array at p, and a "next" row only while
\* n > 25 * (page + 1).
PageWithinArray(p) ==
    LET n == Len(ValueAt(p).items)
    IN  /\ 25 * state[p].page < (IF n > 1 THEN n ELSE 1)
        /\ NextRowsOf(p) # <<>> => n > 25 * (state[p].page + 1)

\* An expanded array that has had ceil(n/25) - 1 reveal-mores shows all its
\* n elements and has no "next" row, so that no reveal-more is left.
AllShownOnLastPage(p) ==
    LET n == Len(ValueAt(p).items)
    IN  (state[p].expanded /\ state[p].page = PagesOf(n) - 1) =>
            /\ Len(ElementRows(p)) = n
            /\ NextRowsOf(p) = <<>>

(***************************************************************************)
(* C17, as claimed: for every array of length n, 25 * page < max(n, 1); a  *)
(* "next" row, and so a reveal-more, exists only while n > 25 * (page+1);  *)
(* page never exceeds ceil(n/25) - 1; and an expanded array on page        *)
(* ceil(n/25) - 1 shows all n elements and has no "next" row.              *)
(***************************************************************************)
C17_PageNeverExceedsLastPage ==
    /\ \A i \in 1..Len(rows) : rows[i].kind = "next" => ValueAt(rows[i].paths).type = "array"
    /\ \A p \in DOMAIN state :
           ValueAt(p).type = "array" =>
               /\ PageWithinArray(p)
               /\ state[p].page <= PagesOf(Len(ValueAt(p).items)) - 1
               /\ AllShownOnLastPage(p)

(***************************************************************************)
(* C17, amended: the same, with the bound ceil(n/25) - 1 on page stated    *)
(* for the arrays that have an element; the page of an empty array is 0.   *)
(***************************************************************************)
C17_PageNeverExceedsLastPageOfNonEmpty ==
    /\ \A i \in 1..Len(rows) : rows[i].kind = "next" => ValueAt(rows[i].paths).type = "array"
    /\ \A p \in DOMAIN state :
           ValueAt(p).type = "array" =>
               /\ PageWithinArray(p)
               /\ IF Len(ValueAt(p).items) >= 1
                  THEN state[p].page <= PagesOf(Len(ValueAt(p).items)) - 1
                  ELSE state[p].page = 0
               /\ AllShownOnLastPage(p)

\* An array of more than 50 elements after its second and last reveal-more:
\* every element has its row and no "next" row is left.
C17_Witness ==
    \E p \in DOMAIN state :
        /\ ValueAt(p).type = "array"
        /\ Len(ValueAt(p).items) > 50
        /\ state[p].page = PagesOf(Len(ValueAt(p).items)) - 1
        /\ state[p].page = 2
        /\ Len(ElementRows(p)) = Len(ValueAt(p).items)
        /\ NextRowsOf(p) = <<>>

\* The number of children of the collection v that a render on page `page`
\* creates elements for.
ChildrenRendered(v, page) ==
    IF v.type = "array" THEN Min(Len(v.items), 25 * (page + 1)) ELSE Len(v.keys)

(***************************************************************************)
(* C18: for every node below the root, expanded implies hasBeenExpanded;   *)
(* the children of a collection below the root have rows exactly when the  *)
(* collection's hasBeenExpanded is true; and a node below the root that    *)
(* was never toggled has no row below it, not even a "next" row.           *)
(***************************************************************************)
C18_MaterializedIffHasBeenExpanded ==
    \A p \in DOMAIN state :
        p # <<>> =>
            LET v == ValueAt(p)
                s == state[p]
            IN  /\ s.expanded => s.hasBeenExpanded
                /\ v.type \in {"array", "object"} =>
                       /\ s.hasBeenExpanded <=> SelectSeq(ChildRows(rows, p), IsNodeRow) # <<>>
                       /\ s.hasBeenExpanded =>
                              Len(SelectSeq(ChildRows(rows, p), IsNodeRow))
                                  = ChildrenRendered(v, s.page)
                /\ ~s.hasBeenExpanded =>
                       /\ RowsBelow(rows, p) = <<>>
                       /\ ChildRows(rows, p) = <<>>

\* Two collections side by side below the root: one expanded and collapsed
\* again, its children's rows kept, and one never toggled, with no row below.
C18_Witness ==
    \E p, q \in DOMAIN state :
        /\ Len(p) = 2 /\ Len(q) = 2 /\ Parent(p) = Parent(q)
        /\ ValueAt(p).type \in {"array", "object"}
        /\ state[p].hasBeenExpanded /\ ~state[p].expanded
        /\ RowsBelow(rows, p) # <<>>
        /\ ValueAt(q).type \in {"array", "object"}
        /\ Collapsible(ValueAt(q))
        /\ ~state[q].hasBeenExpanded
        /\ RowsBelow(rows, q) = <<>>

\* A string of more than 100 characters.
IsLongString(v) == v.type = "string" /\ Len(v.s) > 100

====
